---- MODULE Spec2Model ----
(***************************************************************************)
(* A model of RamarisClient (src/src/client.ts) and of its error classes   *)
(* (src/unnamed/part_001, the module client.ts imports as ./errors.js).    *)
(*                                                                         *)
(* Strings are sequences of atoms.  An atom is a single character wherever *)
(* the code looks at characters (digits, "/", "?", "&", "=", "-", " ") and *)
(* otherwise a run of characters the code never looks into.                *)
(*                                                                         *)
(* JavaScript values (JSON bodies, call arguments, results, error fields)  *)
(* are records tagged by t: undefined, null, number, string, object.       *)
(***************************************************************************)
EXTENDS Integers, Sequences, FiniteSets, TLC

VARIABLES
  options,    \* the ClientOptions the client was constructed with
  apiKey,     \* this.apiKey
  baseUrl,    \* this.baseUrl
  rateLimit,  \* this.rateLimit
  calls,      \* the invocations of public methods, by call slot
  arrived     \* the slots whose call has obtained its response, in the order
              \* in which the responses were received

vars == <<options, apiKey, baseUrl, rateLimit, calls, arrived>>

(***************************************************************************)
(* Bounds of the model.                                                    *)
(***************************************************************************)
MaxInFlight == 2
MaxPage == 12
MaxPageSize == 50

(***************************************************************************)
(* JavaScript values.                                                      *)
(***************************************************************************)
Undefined == [t |-> "undefined"]
JNull == [t |-> "null"]
JNum(n) == [t |-> "number", n |-> n]
JStr(s) == [t |-> "string", s |-> s]
JObj(f) == [t |-> "object", f |-> f]
JArr(a) == [t |-> "array", a |-> a]

Nullish(v) == v.t \in {"undefined", "null"}

\* a ?? b
Coalesce(a, b) == IF Nullish(a) THEN b ELSE a

\* v?.name : undefined on a nullish v, the property otherwise; a primitive
\* has no own property of these names.
OptGet(v, name) ==
  IF v.t = "object" /\ name \in DOMAIN v.f THEN v.f[name] ELSE Undefined

(***************************************************************************)
(* Numbers and strings.                                                    *)
(***************************************************************************)
Digits == <<"0", "1", "2", "3", "4", "5", "6", "7", "8", "9">>

IsDigit(c) == \E i \in 1..10 : Digits[i] = c

DigitValue(c) == (CHOOSE i \in 1..10 : Digits[i] = c) - 1

RECURSIVE NatToString(_)
NatToString(n) ==
  IF n < 10 THEN <<Digits[n + 1]>>
  ELSE NatToString(n \div 10) \o <<Digits[(n % 10) + 1]>>

\* String(n) for an integer n
NumberToString(n) == IF n < 0 THEN <<"-">> \o NatToString(-n) ELSE NatToString(n)

\* The value of a parseInt: a number, or NaN.
NaN == [nan |-> TRUE]
Num(n) == [nan |-> FALSE, n |-> n]

RECURSIVE SkipSpaces(_)
SkipSpaces(s) ==
  IF s # <<>> /\ Head(s) = " " THEN SkipSpaces(Tail(s)) ELSE s

\* The digits s starts with, read in base 10 on top of acc; seen tells
\* whether a digit was read.
RECURSIVE ReadDigits(_, _, _)
ReadDigits(s, acc, seen) ==
  IF s # <<>> /\ IsDigit(Head(s))
  THEN ReadDigits(Tail(s), 10 * acc + DigitValue(Head(s)), TRUE)
  ELSE [seen |-> seen, n |-> acc]

\* parseInt(s, 10): leading white space, a sign, then digits up to the
\* first character that is no digit; NaN when there is no digit.
parseInt(s) ==
  LET t == SkipSpaces(s)
      neg == t # <<>> /\ Head(t) = "-"
      u == IF t # <<>> /\ Head(t) \in {"-", "+"} THEN Tail(t) ELSE t
      r == ReadDigits(u, 0, FALSE)
  IN IF ~r.seen THEN NaN ELSE Num(IF neg THEN -r.n ELSE r.n)

\* s.includes(sub)
Includes(s, sub) ==
  \E i \in 0..(Len(s) - Len(sub)) : SubSeq(s, i + 1, i + Len(sub)) = sub

\* s.replace(/\/+$/, '')
RECURSIVE StripTrailingSlashes(_)
StripTrailingSlashes(s) ==
  IF s # <<>> /\ s[Len(s)] = "/"
  THEN StripTrailingSlashes(SubSeq(s, 1, Len(s) - 1))
  ELSE s

\* Boolean(v), the test of `a && b` and of `!a`
Truthy(v) ==
  CASE v.t = "string" -> v.s # <<>>
    [] v.t = "number" -> v.n # 0
    [] v.t \in {"object", "array"} -> TRUE
    [] OTHER -> FALSE

\* String(v), the conversion of a template literal and of String()
ToStr(v) ==
  CASE v.t = "string" -> v.s
    [] v.t = "number" -> NumberToString(v.n)
    [] v.t = "null" -> <<"null">>
    [] v.t = "undefined" -> <<"undefined">>
    [] OTHER -> <<"[object Object]">>

(***************************************************************************)
(* The error classes.                                                      *)
(***************************************************************************)
Superclass ==
  [RateLimitError |-> "RamarisError", RamarisError |-> "Error",
   TypeError |-> "Error", SyntaxError |-> "Error", Error |-> "Object",
   Object |-> "Object"]

\* e instanceof cls
InstanceOf(e, cls) ==
  \/ e.name = cls
  \/ Superclass[e.name] = cls
  \/ Superclass[Superclass[e.name]] = cls

RamarisError(message, code, status) ==
  [name |-> "RamarisError", message |-> message, code |-> code, status |-> status]

RateLimitError(message, retryAfter) ==
  [name |-> "RateLimitError", retryAfter |-> retryAfter]
    @@ RamarisError(message, JStr(<<"RATE_LIMITED">>), 429)

\* What a call ends with.
Return(v) == [tag |-> "return", value |-> v]
Throw(e) == [tag |-> "throw", error |-> e]

(***************************************************************************)
(* Responses.  headers is a function from the (lower-case) names of the    *)
(* headers the response carries to their values; body.json tells whether   *)
(* response.json() resolves, and then body.value is what it resolves to.   *)
(***************************************************************************)
\* headers.get(name)
HeadersGet(headers, name) ==
  IF name \in DOMAIN headers THEN JStr(headers[name]) ELSE JNull

\* response.ok
ResponseOk(response) == response.status >= 200 /\ response.status <= 299

(***************************************************************************)
(* The client.                                                             *)
(***************************************************************************)
DEFAULT_BASE_URL == <<"https:", "/", "/", "www.ramaris.app", "/", "api", "/", "v1">>

\* A constructor that strips one trailing slash: .replace(/\/$/, '')
ConstructBaseUrl_OneSlash(opts) ==
  LET s == ToStr(Coalesce(OptGet(opts, "baseUrl"), JStr(DEFAULT_BASE_URL)))
  IN IF s # <<>> /\ s[Len(s)] = "/" THEN SubSeq(s, 1, Len(s) - 1) ELSE s

\* The constructor's baseUrl: (options.baseUrl ?? DEFAULT_BASE_URL).replace(..)
ConstructBaseUrl(opts) ==
  StripTrailingSlashes(ToStr(Coalesce(OptGet(opts, "baseUrl"), JStr(DEFAULT_BASE_URL))))

\* URLSearchParams.toString() of the pairs set in order
RECURSIVE SearchParamsToString(_)
SearchParamsToString(pairs) ==
  IF pairs = <<>> THEN <<>>
  ELSE LET p == pairs[1]
           rest == SearchParamsToString(Tail(pairs))
       IN <<p[1], "=">> \o p[2] \o (IF rest = <<>> THEN <<>> ELSE <<"&">> \o rest)

\* A buildUrl that tests the fields for truth instead of `!== undefined`
buildUrl_TruthyFields(base, path, params) ==
  LET url == base \o path
      page == OptGet(params, "page")
      pageSize == OptGet(params, "pageSize")
      searchParams ==
        (IF Truthy(page) THEN << <<"page", ToStr(page)>> >> ELSE <<>>)
          \o (IF Truthy(pageSize) THEN << <<"pageSize", ToStr(pageSize)>> >> ELSE <<>>)
      qs == SearchParamsToString(searchParams)
  IN IF ~Truthy(params) THEN url
     ELSE IF qs # <<>> THEN url \o <<"?">> \o qs ELSE url

buildUrl(base, path, params) ==
  LET url == base \o path
      page == OptGet(params, "page")
      pageSize == OptGet(params, "pageSize")
      searchParams ==
        (IF page # Undefined THEN << <<"page", ToStr(page)>> >> ELSE <<>>)
          \o (IF pageSize # Undefined THEN << <<"pageSize", ToStr(pageSize)>> >> ELSE <<>>)
      qs == SearchParamsToString(searchParams)
  IN IF ~Truthy(params) THEN url
     ELSE IF qs # <<>> THEN url \o <<"?">> \o qs ELSE url

\* An updateRateLimit that tests the three headers for presence (!== null)
updateRateLimit_PresenceOnly(headers, cur) ==
  LET limit == HeadersGet(headers, "x-ratelimit-limit")
      remaining == HeadersGet(headers, "x-ratelimit-remaining")
      reset == HeadersGet(headers, "x-ratelimit-reset")
  IN IF limit # JNull /\ remaining # JNull /\ reset # JNull
     THEN [limit |-> parseInt(limit.s),
           remaining |-> parseInt(remaining.s),
           reset |-> parseInt(reset.s)]
     ELSE cur

\* An updateRateLimit that updates each field whose header has a value
updateRateLimit_FieldByField(headers, cur) ==
  LET limit == HeadersGet(headers, "x-ratelimit-limit")
      remaining == HeadersGet(headers, "x-ratelimit-remaining")
      reset == HeadersGet(headers, "x-ratelimit-reset")
      old == IF cur = JNull THEN [limit |-> NaN, remaining |-> NaN, reset |-> NaN] ELSE cur
  IN IF ~Truthy(limit) /\ ~Truthy(remaining) /\ ~Truthy(reset)
     THEN cur
     ELSE [limit |-> IF Truthy(limit) THEN parseInt(limit.s) ELSE old.limit,
           remaining |-> IF Truthy(remaining) THEN parseInt(remaining.s) ELSE old.remaining,
           reset |-> IF Truthy(reset) THEN parseInt(reset.s) ELSE old.reset]

\* The rate-limit snapshot after updateRateLimit(headers), from snapshot cur
updateRateLimit(headers, cur) ==
  LET limit == HeadersGet(headers, "x-ratelimit-limit")
      remaining == HeadersGet(headers, "x-ratelimit-remaining")
      reset == HeadersGet(headers, "x-ratelimit-reset")
  IN IF Truthy(limit) /\ Truthy(remaining) /\ Truthy(reset)
     THEN [limit |-> parseInt(limit.s),
           remaining |-> parseInt(remaining.s),
           reset |-> parseInt(reset.s)]
     ELSE cur

\* A body read only when the content type is exactly application/json
ParseErrorBody_ExactContentType(response) ==
  LET contentType == HeadersGet(response.headers, "content-type")
  IN IF contentType = JStr(<<"application/json">>)
     THEN (IF response.body.json THEN response.body.value ELSE JNull)
     ELSE JNull

\* The body of handleErrorResponse after its try/catch: what response.json()
\* resolves to when the content type includes application/json, and null
\* when it does not or when json() rejects.
ParseErrorBody(response) ==
  LET contentType == HeadersGet(response.headers, "content-type")
  IN IF ~Nullish(contentType) /\ Includes(contentType.s, <<"application/json">>)
     THEN (IF response.body.json THEN response.body.value ELSE JNull)
     ELSE JNull

\* A handleErrorResponse without the branch of status 429
handleErrorResponse_No429Branch(response) ==
  LET error == OptGet(ParseErrorBody(response), "error")
      code == Coalesce(OptGet(error, "code"), JStr(<<"UNKNOWN_ERROR">>))
      message ==
        Coalesce(OptGet(error, "message"),
                 JStr(<<"HTTP", " ">> \o NumberToString(response.status)))
  IN Throw(RamarisError(message, code, response.status))

\* A handleErrorResponse without the try/catch around response.json()
handleErrorResponse_ParseErrorEscapes(response) ==
  LET contentType == HeadersGet(response.headers, "content-type")
      error == OptGet(ParseErrorBody(response), "error")
      code == Coalesce(OptGet(error, "code"), JStr(<<"UNKNOWN_ERROR">>))
      message ==
        Coalesce(OptGet(error, "message"),
                 JStr(<<"HTTP", " ">> \o NumberToString(response.status)))
      retryAfter == Coalesce(OptGet(error, "retryAfter"), JNum(0))
  IN IF /\ ~Nullish(contentType)
        /\ Includes(contentType.s, <<"application/json">>)
        /\ ~response.body.json
     THEN Throw([name |-> "SyntaxError"])
     ELSE IF response.status = 429
     THEN Throw(RateLimitError(message, retryAfter))
     ELSE Throw(RamarisError(message, code, response.status))

\* A handleErrorResponse that throws for 4xx and 5xx only and returns
\* otherwise
handleErrorResponse_ReturnsBelow400(response) ==
  LET error == OptGet(ParseErrorBody(response), "error")
      code == Coalesce(OptGet(error, "code"), JStr(<<"UNKNOWN_ERROR">>))
      message ==
        Coalesce(OptGet(error, "message"),
                 JStr(<<"HTTP", " ">> \o NumberToString(response.status)))
      retryAfter == Coalesce(OptGet(error, "retryAfter"), JNum(0))
  IN IF response.status < 400
     THEN Return(Undefined)
     ELSE IF response.status = 429
     THEN Throw(RateLimitError(message, retryAfter))
     ELSE Throw(RamarisError(message, code, response.status))

\* What handleErrorResponse(response) ends with
handleErrorResponse(response) ==
  LET body == ParseErrorBody(response)
      error == OptGet(body, "error")
      code == Coalesce(OptGet(error, "code"), JStr(<<"UNKNOWN_ERROR">>))
      message ==
        Coalesce(OptGet(error, "message"),
                 JStr(<<"HTTP", " ">> \o NumberToString(response.status)))
      retryAfter == Coalesce(OptGet(error, "retryAfter"), JNum(0))
  IN IF response.status = 429
     THEN Throw(RateLimitError(message, retryAfter))
     ELSE Throw(RamarisError(message, code, response.status))

(***************************************************************************)
(* The facade: what each public method asks of request().  unwrap tells    *)
(* whether the method returns the data field of what request() resolves to *)
(* (getSingle) or the whole of it (getPaginated, health).                  *)
(***************************************************************************)
getPaginated(path, params) == [path |-> path, params |-> params, unwrap |-> FALSE]

\* A getSingle that returns what request() resolves to
getSingle_WholeBody(path) == [path |-> path, params |-> Undefined, unwrap |-> FALSE]

getSingle(path) == [path |-> path, params |-> Undefined, unwrap |-> TRUE]

health == [path |-> <<"/", "health">>, params |-> Undefined, unwrap |-> FALSE]

strategies_list(params) == getPaginated(<<"/", "strategies">>, params)

strategies_get(shareId) == getSingle(<<"/", "strategies", "/">> \o ToStr(shareId))

strategies_watchlist(params) ==
  getPaginated(<<"/", "me", "/", "strategies", "/", "watchlist">>, params)

wallets_list(params) == getPaginated(<<"/", "wallets">>, params)

wallets_get(id) == getSingle(<<"/", "wallets", "/">> \o ToStr(id))

me_profile == getSingle(<<"/", "me", "/", "profile">>)

me_subscription == getSingle(<<"/", "me", "/", "subscription">>)

\* The public method an invocation names, applied to its argument
Dispatch(inv) ==
  CASE inv.op = "strategies.list" -> strategies_list(inv.arg)
    [] inv.op = "strategies.get" -> strategies_get(inv.arg)
    [] inv.op = "strategies.watchlist" -> strategies_watchlist(inv.arg)
    [] inv.op = "wallets.list" -> wallets_list(inv.arg)
    [] inv.op = "wallets.get" -> wallets_get(inv.arg)
    [] inv.op = "me.profile" -> me_profile
    [] inv.op = "me.subscription" -> me_subscription
    [] inv.op = "health" -> health

\* A fetch that also sends a Content-Type header
FetchRequest_ContentType(key, base, path, params) ==
  [url |-> buildUrl(base, path, params),
   method |-> "GET",
   headers |-> [Authorization |-> <<"Bearer", " ">> \o key,
                Accept |-> <<"application/json">>,
                ContentType |-> <<"application/json">>]]

\* The fetch(url, init) of request()
FetchRequest(key, base, path, params) ==
  [url |-> buildUrl(base, path, params),
   method |-> "GET",
   headers |-> [Authorization |-> <<"Bearer", " ">> \o key,
                Accept |-> <<"application/json">>]]

\* What `return (await response.json()) as T` and the method around it end
\* with: json() rejects with a SyntaxError on a body that is no JSON, and
\* getSingle reads .data, which throws a TypeError on null.
ReadBody(response, unwrap) ==
  IF ~response.body.json THEN Throw([name |-> "SyntaxError"])
  ELSE IF ~unwrap THEN Return(response.body.value)
  ELSE IF Nullish(response.body.value) THEN Throw([name |-> "TypeError"])
  ELSE Return(OptGet(response.body.value, "data"))

\* A catch that always reports the generic message
NetworkError_GenericMessage(err) ==
  RamarisError(JStr(<<"Network error">>), JStr(<<"NETWORK_ERROR">>), 0)

\* The catch of request(): what a rejected fetch is turned into
NetworkError(err) ==
  RamarisError(IF err.isError THEN err.message ELSE JStr(<<"Network error">>),
               JStr(<<"NETWORK_ERROR">>), 0)

(***************************************************************************)
(* The inputs: constructor options, invocations, responses, failures.      *)
(***************************************************************************)
OverrideUrl == <<"https:", "/", "/", "x", "/", "v1">>

OptionsValues ==
  { JObj([apiKey |-> JStr(<<"rms_live_A">>)]),
    JObj([apiKey |-> JStr(<<"rms_test_B">>), baseUrl |-> JStr(OverrideUrl \o <<"/">>)]),
    JObj([apiKey |-> JStr(<<"rms_live_A">>), baseUrl |-> JStr(OverrideUrl \o <<"/", "/">>)]),
    JObj([apiKey |-> JStr(<<"rms_test_B">>), baseUrl |-> JStr(OverrideUrl)]) }


PageValues == {Undefined, JNum(0), JNum(MaxPage)}

PageSizeValues == {Undefined, JNum(MaxPageSize)}

\* A PaginationParams object holding the fields that are given
ParamsObject(page, pageSize) ==
  JObj([n \in {m \in {"page", "pageSize"} :
                 (IF m = "page" THEN page ELSE pageSize) # Undefined}
          |-> IF n = "page" THEN page ELSE pageSize])

ParamsValues ==
  {Undefined} \cup {ParamsObject(p, ps) : p \in PageValues, ps \in PageSizeValues}

\* Both fields given
FullParams == ParamsObject(JNum(MaxPage), JNum(MaxPageSize))

Invocations ==
  [op : {"strategies.list"}, arg : ParamsValues]
    \cup [op : {"strategies.watchlist", "wallets.list"}, arg : {Undefined, FullParams}]
    \cup { [op |-> "strategies.get", arg |-> JStr(<<"abc", "-", "1", "2">>)],
           [op |-> "wallets.get", arg |-> JNum(42)],
           [op |-> "me.profile", arg |-> Undefined],
           [op |-> "me.subscription", arg |-> Undefined],
           [op |-> "health", arg |-> Undefined] }

\* The headers given by a set of <<name, value>> pairs
MkHeaders(pairs) ==
  [n \in {p[1] : p \in pairs} |-> (CHOOSE p \in pairs : p[1] = n)[2]]

\* Each rate-limit header is absent (<<>>) or present with a value (<<v>>):
\* an empty value, a decimal number, or text that is no number.
LimitChoices == { <<>>, << <<>> >>, << <<"6", "0">> >>, << <<"a", "b", "c">> >> }

RemainingChoices == { <<>>, << <<>> >>, << <<"0">> >>, << <<"5", "9", "r">> >> }

ResetChoices == { <<>>, << <<>> >>, << <<"1", "7", "0", "0">> >> }

RateLimitHeaders(l, r, s) ==
  MkHeaders({<<"x-ratelimit-limit", l[i]>> : i \in DOMAIN l}
              \cup {<<"x-ratelimit-remaining", r[i]>> : i \in DOMAIN r}
              \cup {<<"x-ratelimit-reset", s[i]>> : i \in DOMAIN s})

RateLimitHeaderCases ==
  {RateLimitHeaders(l, r, s) : l \in LimitChoices, r \in RemainingChoices, s \in ResetChoices}

\* Each header absent or a decimal number
NumericHeaderCases ==
  {RateLimitHeaders(l, r, s) :
     l \in {<<>>, << <<"1", "0", "0">> >>}, r \in {<<>>, << <<"9", "9">> >>},
     s \in {<<>>, << <<"1", "8", "0", "0">> >>}}

JsonType == <<"application/json">>

ContentTypeCases ==
  { MkHeaders({}),
    MkHeaders({<<"content-type", JsonType>>}),
    MkHeaders({<<"content-type", JsonType \o <<";", " ", "charset=utf-8">>>>}),
    MkHeaders({<<"content-type", <<"text/plain">>>>}) }

Body(v) == [json |-> TRUE, value |-> v]

Malformed == [json |-> FALSE]

ErrorEnvelope(code, message) ==
  JObj([error |-> JObj([code |-> JStr(code), message |-> JStr(message)])])

ErrorBodies ==
  { Body(ErrorEnvelope(<<"NOT_FOUND">>, <<"Strategy", " ", "not", " ", "found">>)),
    Body(JObj([error |-> JObj([code |-> JStr(<<"TOO_MANY_REQUESTS">>),
                               message |-> JStr(<<"Rate", " ", "limit", " ", "exceeded">>),
                               retryAfter |-> JNum(1800)])])),
    Body(JObj([error |-> JObj([code |-> JStr(<<"FORBIDDEN">>)])])),
    Body(JObj([error |-> JObj([message |-> JStr(<<"Boom">>)])])),
    Body(JObj([error |-> JObj(<<>>)])),
    Body(JObj([error |-> JStr(<<"Boom">>)])),
    Body(JObj([message |-> JStr(<<"Boom">>)])),
    Body(JStr(<<"Boom">>)),
    Body(JNull),
    Malformed }

Item == JObj([id |-> JNum(1), name |-> JStr(<<"Alpha">>)])

Pagination ==
  JObj([page |-> JNum(1), pageSize |-> JNum(20), totalItems |-> JNum(1),
        totalPages |-> JNum(1)])

OkBodies ==
  { Body(JObj([data |-> Item])),
    Body(JObj([data |-> Item, meta |-> JStr(<<"m">>)])),
    Body(JObj([data |-> JArr(<<Item>>), pagination |-> Pagination])),
    Body(JObj([status |-> JStr(<<"ok">>), version |-> JStr(<<"1">>)])),
    Body(JObj([data |-> JNull])),
    Body(JNull),
    Malformed }

ErrorStatuses == {304, 429, 502}

OkStatuses == {200, 201}

Response(status, headers, body) == [status |-> status, headers |-> headers, body |-> body]

Responses ==
  {Response(200, h, Body(JObj([data |-> Item]))) : h \in RateLimitHeaderCases}
    \cup {Response(st, h, Malformed) : st \in {404, 429}, h \in NumericHeaderCases}
    \cup {Response(st, h, b) : st \in ErrorStatuses, h \in ContentTypeCases, b \in ErrorBodies}
    \cup {Response(st, MkHeaders({<<"content-type", JsonType>>}), b) :
            st \in OkStatuses, b \in OkBodies}

\* What fetch rejects with: an Error with a message, or a value that is no Error
Failures ==
  { [isError |-> TRUE, message |-> JStr(<<"fetch", " ", "failed">>)],
    [isError |-> TRUE, message |-> JStr(<<>>)],
    [isError |-> FALSE] }

(***************************************************************************)
(* The state machine.  A call slot holds one invocation of a public method *)
(* from the fetch it issues to the value or error it ends with:            *)
(*   idle         no invocation                                            *)
(*   fetch        awaiting fetch (client.ts:84)                            *)
(*   handleError  awaiting handleErrorResponse (client.ts:102)             *)
(*   json         awaiting response.json() (client.ts:105)                 *)
(*   done         the promise is settled with `out`                        *)
(* sent, resp, fail and out hold zero or one element: the request issued,  *)
(* the response fetch resolved to, what fetch rejected with, the outcome.  *)
(***************************************************************************)
Slots == 1..MaxInFlight

IdleCall ==
  [pc |-> "idle", inv |-> Undefined, sent |-> <<>>, resp |-> <<>>, fail |-> <<>>,
   out |-> <<>>]

Quiescent == \A c \in Slots : calls[c].pc = "idle"

\* new RamarisClient(options)
Init ==
  /\ options \in OptionsValues
  /\ apiKey = ToStr(OptGet(options, "apiKey"))
  /\ baseUrl = ConstructBaseUrl(options)
  /\ rateLimit = JNull
  /\ calls = [c \in Slots |-> IdleCall]
  /\ arrived = <<>>

\* A public method is invoked: request() builds the URL and issues the fetch.
\* The invocation takes the first free slot.
Invoke(c, inv) ==
  /\ calls[c].pc = "idle"
  /\ \A d \in Slots : d < c => calls[d].pc # "idle"
  /\ LET m == Dispatch(inv)
     IN calls' = [calls EXCEPT ![c] =
                    [pc |-> "fetch", inv |-> inv,
                     sent |-> <<FetchRequest(apiKey, baseUrl, m.path, m.params)>>,
                     resp |-> <<>>, fail |-> <<>>, out |-> <<>>]]
  /\ UNCHANGED <<options, apiKey, baseUrl, rateLimit, arrived>>

\* A request() that issues the fetch once more when the first one rejects
FetchReject_RetryOnce(c, err) ==
  /\ calls[c].pc = "fetch"
  /\ calls' = IF Len(calls[c].sent) = 1
              THEN [calls EXCEPT ![c].sent = calls[c].sent \o calls[c].sent]
              ELSE [calls EXCEPT ![c].pc = "done", ![c].fail = <<err>>,
                                 ![c].out = <<Throw(NetworkError(err))>>]
  /\ UNCHANGED <<options, apiKey, baseUrl, rateLimit, arrived>>

\* A catch of request() that also forgets the snapshot
FetchReject_ClearsSnapshot(c, err) ==
  /\ calls[c].pc = "fetch"
  /\ calls' = [calls EXCEPT ![c].pc = "done", ![c].fail = <<err>>,
                            ![c].out = <<Throw(NetworkError(err))>>]
  /\ rateLimit' = JNull
  /\ UNCHANGED <<options, apiKey, baseUrl, arrived>>

\* fetch rejects: the catch of request() throws a NETWORK_ERROR.
FetchReject(c, err) ==
  /\ calls[c].pc = "fetch"
  /\ calls' = [calls EXCEPT ![c].pc = "done", ![c].fail = <<err>>,
                            ![c].out = <<Throw(NetworkError(err))>>]
  /\ UNCHANGED <<options, apiKey, baseUrl, rateLimit, arrived>>

\* fetch resolves: request() updates the snapshot, then awaits
\* handleErrorResponse or response.json().
FetchResolve(c, response) ==
  /\ calls[c].pc = "fetch"
  /\ rateLimit' = updateRateLimit(response.headers, rateLimit)
  /\ calls' = [calls EXCEPT ![c].resp = <<response>>,
                            ![c].pc = IF ~ResponseOk(response) THEN "handleError" ELSE "json"]
  /\ arrived' = Append(arrived, c)
  /\ UNCHANGED <<options, apiKey, baseUrl>>

\* handleErrorResponse settles: an error it throws ends the call; were it to
\* return, request() would go on to client.ts:105.
HandleError(c) ==
  /\ calls[c].pc = "handleError"
  /\ LET r == handleErrorResponse(calls[c].resp[1])
     IN calls' = IF r.tag = "throw"
                 THEN [calls EXCEPT ![c].pc = "done", ![c].out = <<r>>]
                 ELSE [calls EXCEPT ![c].pc = "json"]
  /\ UNCHANGED <<options, apiKey, baseUrl, rateLimit, arrived>>

\* A request() that keeps the response in a field of the client and reads it
\* back after the await: it reads the response received last
ReadJson_SharedResponse(c) ==
  /\ calls[c].pc = "json"
  /\ calls' = [calls EXCEPT ![c].pc = "done",
                            ![c].out = <<ReadBody(calls[arrived[Len(arrived)]].resp[1],
                                                  Dispatch(calls[c].inv).unwrap)>>]
  /\ UNCHANGED <<options, apiKey, baseUrl, rateLimit, arrived>>

\* response.json() settles and the method returns or throws.
ReadJson(c) ==
  /\ calls[c].pc = "json"
  /\ calls' = [calls EXCEPT ![c].pc = "done",
                            ![c].out = <<ReadBody(calls[c].resp[1], Dispatch(calls[c].inv).unwrap)>>]
  /\ UNCHANGED <<options, apiKey, baseUrl, rateLimit, arrived>>

\* The caller takes the settled result; the slot is free again.
Settle(c) ==
  /\ calls[c].pc = "done"
  /\ calls' = [calls EXCEPT ![c] = IdleCall]
  /\ arrived' = SelectSeq(arrived, LAMBDA d : d # c)
  /\ UNCHANGED <<options, apiKey, baseUrl, rateLimit>>

\* The caller awaits each call before it makes the next.
Next ==
  \/ \E c \in Slots, inv \in Invocations : Quiescent /\ Invoke(c, inv)
  \/ \E c \in Slots, err \in Failures : FetchReject(c, err)
  \/ \E c \in Slots, response \in Responses : FetchResolve(c, response)
  \/ \E c \in Slots : HandleError(c)
  \/ \E c \in Slots : ReadJson(c)
  \/ \E c \in Slots : Settle(c)

Spec == Init /\ [][Next]_vars

(***************************************************************************)
(* Concurrent callers: a caller makes calls without awaiting the earlier   *)
(* ones and takes the results when all of them have settled                *)
(* (Promise.allSettled).  No slot is freed before that, so among the calls *)
(* in progress a higher slot is a call issued later.                       *)
(***************************************************************************)
ConcOptionsValues == { JObj([apiKey |-> JStr(<<"rms_live_A">>)]) }

ConcInvocations ==
  { [op |-> "me.profile", arg |-> Undefined],
    [op |-> "strategies.list", arg |-> FullParams] }

JsonHeader == MkHeaders({<<"content-type", JsonType>>})

ConcResponses ==
  { Response(200,
             RateLimitHeaders(<< <<"6", "0">> >>, << <<"0">> >>, << <<"1", "7", "0", "0">> >>)
               @@ JsonHeader,
             Body(JObj([data |-> Item]))),
    Response(201,
             RateLimitHeaders(<< <<"1", "0", "0">> >>, << <<"9", "9">> >>,
                              << <<"1", "8", "0", "0">> >>) @@ JsonHeader,
             Body(JObj([data |-> JArr(<<Item>>), pagination |-> Pagination]))),
    Response(200,
             RateLimitHeaders(<< <<"6", "0">> >>, << <<>> >>, << <<"1", "7", "0", "0">> >>)
               @@ JsonHeader,
             Body(JNull)),
    Response(429,
             RateLimitHeaders(<< <<"1", "0", "0">> >>, << <<"0">> >>,
                              << <<"1", "8", "0", "0">> >>) @@ JsonHeader,
             Body(JObj([error |-> JObj([code |-> JStr(<<"TOO_MANY_REQUESTS">>),
                                        message |-> JStr(<<"Slow", " ", "down">>),
                                        retryAfter |-> JNum(1800)])]))),
    Response(502, MkHeaders({<<"content-type", <<"text/plain">>>>}), Malformed) }

ConcFailures == { [isError |-> TRUE, message |-> JStr(<<"fetch", " ", "failed">>)] }

InitConc ==
  /\ options \in ConcOptionsValues
  /\ apiKey = ToStr(OptGet(options, "apiKey"))
  /\ baseUrl = ConstructBaseUrl(options)
  /\ rateLimit = JNull
  /\ calls = [c \in Slots |-> IdleCall]
  /\ arrived = <<>>

\* Every call made has settled and the caller takes the results.
SettleAll ==
  /\ \E c \in Slots : calls[c].pc = "done"
  /\ \A c \in Slots : calls[c].pc \in {"idle", "done"}
  /\ calls' = [c \in Slots |-> IdleCall]
  /\ arrived' = <<>>
  /\ UNCHANGED <<options, apiKey, baseUrl, rateLimit>>

NextConc ==
  \/ \E c \in Slots, inv \in ConcInvocations : Invoke(c, inv)
  \/ \E c \in Slots, err \in ConcFailures : FetchReject(c, err)
  \/ \E c \in Slots, response \in ConcResponses : FetchResolve(c, response)
  \/ \E c \in Slots : HandleError(c)
  \/ \E c \in Slots : ReadJson(c)
  \/ SettleAll

SpecConc == InitConc /\ [][NextConc]_vars

(***************************************************************************)
(* Vocabulary of the properties.                                           *)
(***************************************************************************)
RateLimitHeaderNames == {"x-ratelimit-limit", "x-ratelimit-remaining", "x-ratelimit-reset"}

\* The triple of the integer-parsed values of the three headers
ParsedTriple(headers) ==
  [limit |-> parseInt(headers["x-ratelimit-limit"]),
   remaining |-> parseInt(headers["x-ratelimit-remaining"]),
   reset |-> parseInt(headers["x-ratelimit-reset"])]

\* The step in which call c obtains its HTTP response
Receives(c) == calls[c].pc = "fetch" /\ calls'[c].resp # <<>>

\* The call of slot c has ended, with or without a response
Done(c) == calls[c].pc = "done"

\* The call of slot c has ended after obtaining a response, Resp(c)
Answered(c) == Done(c) /\ calls[c].resp # <<>>

Resp(c) == calls[c].resp[1]

NonOk(response) == ~(response.status >= 200 /\ response.status <= 299)

Outcome(c) == calls[c].out[1]

\* The response says its body is JSON
JsonContentType(response) ==
  /\ "content-type" \in DOMAIN response.headers
  /\ Includes(response.headers["content-type"], <<"application/json">>)

\* The body of the response is JSON text, declared as JSON
ParsedBody(response) == JsonContentType(response) /\ response.body.json

\* The parsed body has an error object
HasErrorObject(response) ==
  /\ ParsedBody(response)
  /\ response.body.value.t = "object"
  /\ "error" \in DOMAIN response.body.value.f
  /\ response.body.value.f.error.t = "object"

ErrorObject(response) == response.body.value.f.error.f

\* The parsed body is an error envelope: { error: { code, message } }
IsErrorEnvelope(response) ==
  /\ HasErrorObject(response)
  /\ {"code", "message"} \subseteq DOMAIN ErrorObject(response)

HttpMessage(status) == JStr(<<"HTTP", " ">> \o NumberToString(status))

(***************************************************************************)
(* C1                                                                      *)
(***************************************************************************)
\* C1 as stated: in every step in which a call obtains a response, the
\* snapshot becomes the parsed triple of the three rate-limit headers if all
\* three are present on the response, and is left as it was otherwise.
C1_AsStated ==
  [][\A c \in Slots : Receives(c) =>
       LET h == calls'[c].resp[1].headers
       IN IF RateLimitHeaderNames \subseteq DOMAIN h
          THEN rateLimit' = ParsedTriple(h)
          ELSE rateLimit' = rateLimit]_vars

\* C1, amended: in every step in which a call obtains a response (of any
\* status, for any public method), the snapshot becomes the parsed triple of
\* the three rate-limit headers if all three are present with a non-empty
\* value, and is left as it was otherwise: when one is absent or empty.
C1_SnapshotOverwrittenIffAllPresentNonEmpty ==
  [][\A c \in Slots : Receives(c) =>
       LET h == calls'[c].resp[1].headers
       IN IF /\ RateLimitHeaderNames \subseteq DOMAIN h
             /\ \A n \in RateLimitHeaderNames : h[n] # <<>>
          THEN rateLimit' = ParsedTriple(h)
          ELSE rateLimit' = rateLimit]_vars

\* A 429 response with the three headers has set the snapshot to limit 100,
\* remaining 99, reset 1800, before its error is signalled.
C1_Witness ==
  \E c \in Slots :
    /\ calls[c].resp # <<>>
    /\ Resp(c).status = 429
    /\ Resp(c).headers =
         RateLimitHeaders(<< <<"1", "0", "0">> >>, << <<"9", "9">> >>, << <<"1", "8", "0", "0">> >>)
    /\ calls[c].pc = "handleError"
    /\ rateLimit = [limit |-> Num(100), remaining |-> Num(99), reset |-> Num(1800)]

(***************************************************************************)
(* C2                                                                      *)
(***************************************************************************)
\* C2: a call whose response has status 429 ends by throwing a
\* RateLimitError, which is a RamarisError, with code RATE_LIMITED and status
\* 429 whatever code the body reports, and with retryAfter the body's
\* error.retryAfter when the parsed body has one and 0 otherwise.
C2_RateLimitErrorOn429 ==
  \A c \in Slots :
    (Answered(c) /\ Resp(c).status = 429) =>
      /\ Outcome(c).tag = "throw"
      /\ LET e == Outcome(c).error
             r == Resp(c)
         IN /\ e.name = "RateLimitError"
            /\ InstanceOf(e, "RateLimitError")
            /\ InstanceOf(e, "RamarisError")
            /\ e.code = JStr(<<"RATE_LIMITED">>)
            /\ e.status = 429
            /\ e.retryAfter =
                 IF HasErrorObject(r) /\ "retryAfter" \in DOMAIN ErrorObject(r)
                 THEN ErrorObject(r).retryAfter
                 ELSE JNum(0)

\* A 429 whose body reports code TOO_MANY_REQUESTS and retryAfter 1800 has
\* ended with code RATE_LIMITED and retryAfter 1800.
C2_Witness ==
  \E c \in Slots :
    /\ Done(c)
    /\ calls[c].resp # <<>>
    /\ Resp(c).status = 429
    /\ IsErrorEnvelope(Resp(c))
    /\ ErrorObject(Resp(c)).code = JStr(<<"TOO_MANY_REQUESTS">>)
    /\ Outcome(c).error.code = JStr(<<"RATE_LIMITED">>)
    /\ Outcome(c).error.retryAfter = JNum(1800)

(***************************************************************************)
(* C3                                                                      *)
(***************************************************************************)
\* C3: a call whose response has a non-2xx status other than 429 ends by
\* throwing a RamarisError that is no RateLimitError, whose status is the
\* status of the response and whose code and message are the body's
\* error.code and error.message when the body, declared as JSON, is an error
\* envelope.
C3_BaseErrorOnOtherStatus ==
  \A c \in Slots :
    (Answered(c) /\ NonOk(Resp(c)) /\ Resp(c).status # 429) =>
      /\ Outcome(c).tag = "throw"
      /\ LET e == Outcome(c).error
             r == Resp(c)
         IN /\ e.name = "RamarisError"
            /\ ~InstanceOf(e, "RateLimitError")
            /\ e.status = r.status
            /\ IsErrorEnvelope(r) =>
                 /\ e.code = ErrorObject(r).code
                 /\ e.message = ErrorObject(r).message

\* A 502 with the NOT_FOUND envelope has ended with that code and message.
C3_Witness ==
  \E c \in Slots :
    /\ Done(c)
    /\ calls[c].resp # <<>>
    /\ Resp(c).status = 502
    /\ IsErrorEnvelope(Resp(c))
    /\ Outcome(c).error.status = 502
    /\ Outcome(c).error.code = JStr(<<"NOT_FOUND">>)
    /\ Outcome(c).error.message = JStr(<<"Strategy", " ", "not", " ", "found">>)

(***************************************************************************)
(* C4                                                                      *)
(***************************************************************************)
\* The body gives no error object: it is not declared as JSON, is no JSON,
\* or is JSON without an error object.
NoErrorObject(response) == ~HasErrorObject(response)

\* C4 as stated: a call whose non-2xx response gives no error object ends by
\* throwing a RamarisError with the status of the response, code
\* UNKNOWN_ERROR and message "HTTP <status>".
C4_AsStated ==
  \A c \in Slots :
    (Answered(c) /\ NonOk(Resp(c)) /\ NoErrorObject(Resp(c))) =>
      /\ Outcome(c).tag = "throw"
      /\ InstanceOf(Outcome(c).error, "RamarisError")
      /\ Outcome(c).error.status = Resp(c).status
      /\ Outcome(c).error.code = JStr(<<"UNKNOWN_ERROR">>)
      /\ Outcome(c).error.message = HttpMessage(Resp(c).status)

\* C4, amended: a call whose non-2xx response gives no error object ends by
\* throwing a RamarisError with the status of the response and message
\* "HTTP <status>" (never an error of the failed parse), whose code is
\* UNKNOWN_ERROR when the status is not 429 and RATE_LIMITED when it is 429.
C4_DefaultsWithoutErrorObject ==
  \A c \in Slots :
    (Answered(c) /\ NonOk(Resp(c)) /\ NoErrorObject(Resp(c))) =>
      /\ Outcome(c).tag = "throw"
      /\ InstanceOf(Outcome(c).error, "RamarisError")
      /\ Outcome(c).error.status = Resp(c).status
      /\ Outcome(c).error.code =
           IF Resp(c).status = 429
           THEN JStr(<<"RATE_LIMITED">>)
           ELSE JStr(<<"UNKNOWN_ERROR">>)
      /\ Outcome(c).error.message = HttpMessage(Resp(c).status)

\* A 502 declared as JSON whose body is no JSON has ended with
\* UNKNOWN_ERROR and "HTTP 502".
C4_Witness ==
  \E c \in Slots :
    /\ Done(c)
    /\ calls[c].resp # <<>>
    /\ Resp(c).status = 502
    /\ JsonContentType(Resp(c))
    /\ ~Resp(c).body.json
    /\ Outcome(c).error.name = "RamarisError"
    /\ Outcome(c).error.code = JStr(<<"UNKNOWN_ERROR">>)
    /\ Outcome(c).error.message = JStr(<<"HTTP", " ", "5", "0", "2">>)

(***************************************************************************)
(* C5                                                                      *)
(***************************************************************************)
\* C5: a call that ends without a response (fetch rejected) throws a
\* RamarisError, no RateLimitError, with code NETWORK_ERROR and status 0,
\* whose message is the message of what fetch rejected with when that is an
\* Error and "Network error" otherwise; and a call that throws an error with
\* status 0 has obtained no response.
C5_NetworkErrorOnTransportFailure ==
  \A c \in Slots : Done(c) =>
    /\ calls[c].resp = <<>> =>
         /\ calls[c].fail # <<>>
         /\ Outcome(c).tag = "throw"
         /\ Outcome(c).error.name = "RamarisError"
         /\ Outcome(c).error.code = JStr(<<"NETWORK_ERROR">>)
         /\ Outcome(c).error.status = 0
         /\ Outcome(c).error.message =
              IF calls[c].fail[1].isError
              THEN calls[c].fail[1].message
              ELSE JStr(<<"Network error">>)
    /\ ( /\ Outcome(c).tag = "throw"
         /\ "status" \in DOMAIN Outcome(c).error
         /\ Outcome(c).error.status = 0 ) => calls[c].resp = <<>>

\* A call whose fetch rejected with the Error "fetch failed" has ended with
\* NETWORK_ERROR, status 0 and that message.
C5_Witness ==
  \E c \in Slots :
    /\ Done(c)
    /\ calls[c].fail = <<[isError |-> TRUE, message |-> JStr(<<"fetch", " ", "failed">>)]>>
    /\ Outcome(c) =
         Throw([name |-> "RamarisError", message |-> JStr(<<"fetch", " ", "failed">>),
                code |-> JStr(<<"NETWORK_ERROR">>), status |-> 0])

(***************************************************************************)
(* C6                                                                      *)
(***************************************************************************)
SingleItemOps == {"strategies.get", "wallets.get", "me.profile", "me.subscription"}

WholeBodyOps == {"strategies.list", "strategies.watchlist", "wallets.list", "health"}

\* C6: a call that ends on a 2xx response whose body parses to an object
\* returns the data field of that object (and nothing else of it) for a
\* single-item operation, and the whole parsed body for a paginated
\* operation and for health.
C6_DataForSingleWholeBodyOtherwise ==
  \A c \in Slots :
    (Answered(c) /\ ~NonOk(Resp(c)) /\ Resp(c).body.json
       /\ Resp(c).body.value.t = "object") =>
      LET v == Resp(c).body.value
      IN /\ calls[c].inv.op \in SingleItemOps \cup WholeBodyOps
         /\ calls[c].inv.op \in SingleItemOps =>
              Outcome(c) = Return(IF "data" \in DOMAIN v.f THEN v.f.data ELSE Undefined)
         /\ calls[c].inv.op \in WholeBodyOps => Outcome(c) = Return(v)

\* me.profile on a 201 with body {data: Item, meta: "m"} has returned Item;
\* the envelope's meta is gone.
C6_Witness ==
  \E c \in Slots :
    /\ Answered(c)
    /\ calls[c].inv.op = "me.profile"
    /\ Resp(c).status = 201
    /\ Resp(c).body = Body(JObj([data |-> Item, meta |-> JStr(<<"m">>)]))
    /\ Outcome(c) = Return(Item)

(***************************************************************************)
(* C7                                                                      *)
(***************************************************************************)
Occurrences(s, a) == Cardinality({i \in DOMAIN s : s[i] = a})

\* The pieces of s between the occurrences of sep
RECURSIVE SplitOn(_, _)
SplitOn(s, sep) ==
  IF Occurrences(s, sep) = 0 THEN <<s>>
  ELSE LET i == CHOOSE k \in DOMAIN s : s[k] = sep /\ \A j \in 1..(k - 1) : s[j] # sep
       IN <<SubSeq(s, 1, i - 1)>> \o SplitOn(SubSeq(s, i + 1, Len(s)), sep)

\* The URL up to its first "?", or all of it
UrlStem(url) == SplitOn(url, "?")[1]

\* The name=value pairs of the query string of a URL that has one
QueryPairs(url) ==
  LET qs == SubSeq(url, Len(UrlStem(url)) + 2, Len(url))
      parts == SplitOn(qs, "&")
  IN [i \in DOMAIN parts |-> SplitOn(parts[i], "=")]

\* The request of the call of slot c has been issued
Issued(c) == calls[c].sent # <<>>

PaginatedOps == {"strategies.list", "strategies.watchlist", "wallets.list"}

\* The pagination fields an invocation provides, page first
Provided(inv) ==
  LET given(n) ==
        /\ inv.op \in PaginatedOps
        /\ inv.arg.t = "object"
        /\ n \in DOMAIN inv.arg.f
        /\ inv.arg.f[n] # Undefined
  IN (IF given("page") THEN <<[name |-> "page", n |-> inv.arg.f.page.n]>> ELSE <<>>)
       \o (IF given("pageSize")
           THEN <<[name |-> "pageSize", n |-> inv.arg.f.pageSize.n]>>
           ELSE <<>>)

\* C7: the URL of every request is the base URL and the path followed, when
\* no pagination field is provided (params omitted, or neither field given),
\* by nothing, with no "?" in the URL, and otherwise by one "?" and exactly
\* the provided fields as name=value pairs, page before pageSize, each value
\* the decimal digits of the number given.
C7_QueryHoldsExactlyProvidedParams ==
  \A c \in Slots : Issued(c) =>
    LET url == calls[c].sent[1].url
        stem == baseUrl \o Dispatch(calls[c].inv).path
        given == Provided(calls[c].inv)
    IN IF given = <<>>
       THEN url = stem /\ Occurrences(url, "?") = 0
       ELSE /\ Occurrences(url, "?") = 1
            /\ UrlStem(url) = stem
            /\ LET pairs == QueryPairs(url)
               IN /\ Len(pairs) = Len(given)
                  /\ \A i \in DOMAIN pairs :
                       /\ Len(pairs[i]) = 2
                       /\ pairs[i][1] = <<given[i].name>>
                       /\ \A k \in DOMAIN pairs[i][2] : IsDigit(pairs[i][2][k])
                       /\ parseInt(pairs[i][2]) = Num(given[i].n)

\* strategies.list({page: 0, pageSize}) has been requested at
\* .../strategies?page=0&pageSize=<pageSize>.
C7_Witness ==
  \E c \in Slots :
    /\ Issued(c)
    /\ calls[c].inv = [op |-> "strategies.list",
                       arg |-> ParamsObject(JNum(0), JNum(MaxPageSize))]
    /\ calls[c].sent[1].url =
         baseUrl \o <<"/", "strategies", "?", "page", "=", "0", "&", "pageSize", "=">>
           \o NatToString(MaxPageSize)

(***************************************************************************)
(* C8                                                                      *)
(***************************************************************************)
\* s without its trailing slashes: the prefix of s that does not end in "/"
\* and is followed in s by slashes only
WithoutTrailingSlashes(s) ==
  LET k == CHOOSE n \in 0..Len(s) :
             /\ n = 0 \/ s[n] # "/"
             /\ \A i \in (n + 1)..Len(s) : s[i] = "/"
  IN SubSeq(s, 1, k)

\* The base URL the options ask for
ExpectedBaseUrl ==
  IF "baseUrl" \in DOMAIN options.f
  THEN WithoutTrailingSlashes(options.f.baseUrl.s)
  ELSE <<"https:", "/", "/", "www.ramaris.app", "/", "api", "/", "v1">>

\* The path table
PathTable(inv) ==
  CASE inv.op = "strategies.list" -> <<"/", "strategies">>
    [] inv.op = "strategies.get" -> <<"/", "strategies", "/">> \o inv.arg.s
    [] inv.op = "strategies.watchlist" -> <<"/", "me", "/", "strategies", "/", "watchlist">>
    [] inv.op = "wallets.list" -> <<"/", "wallets">>
    [] inv.op = "wallets.get" -> <<"/", "wallets", "/", "4", "2">>
    [] inv.op = "me.profile" -> <<"/", "me", "/", "profile">>
    [] inv.op = "me.subscription" -> <<"/", "me", "/", "subscription">>
    [] inv.op = "health" -> <<"/", "health">>

\* C8: the URL of every request, up to its query string, is the base URL the
\* options ask for (the default when they give none, else the override
\* without its trailing slashes) immediately followed by the operation's path
\* of the path table; one slash, the path's, stands at the join.
C8_UrlIsBaseThenPath ==
  \A c \in Slots : Issued(c) =>
    LET stem == UrlStem(calls[c].sent[1].url)
        n == Len(ExpectedBaseUrl)
    IN /\ stem = ExpectedBaseUrl \o PathTable(calls[c].inv)
       /\ stem[n] # "/"
       /\ stem[n + 1] = "/"
       /\ stem[n + 2] # "/"

\* A client constructed with baseUrl https://x/v1/ has requested
\* https://x/v1/strategies.
C8_Witness ==
  \E c \in Slots :
    /\ Issued(c)
    /\ "baseUrl" \in DOMAIN options.f
    /\ options.f.baseUrl = JStr(<<"https:", "/", "/", "x", "/", "v1", "/">>)
    /\ calls[c].inv = [op |-> "strategies.list", arg |-> Undefined]
    /\ calls[c].sent[1].url = <<"https:", "/", "/", "x", "/", "v1", "/", "strategies">>

(***************************************************************************)
(* C9                                                                      *)
(***************************************************************************)
\* C9: every request issued is a GET with exactly the headers Authorization,
\* "Bearer " and the API key of the options, and Accept, application/json;
\* and no step changes the API key or the base URL, which are those the
\* constructor set.
C9_RequestShape ==
  /\ [](\A c \in Slots : Issued(c) =>
          LET req == calls[c].sent[1]
          IN /\ Len(calls[c].sent) = 1
             /\ req.method = "GET"
             /\ DOMAIN req.headers = {"Authorization", "Accept"}
             /\ req.headers.Authorization = <<"Bearer", " ">> \o options.f.apiKey.s
             /\ req.headers.Accept = <<"application/json">>)
  /\ [](apiKey = options.f.apiKey.s /\ baseUrl = ExpectedBaseUrl)
  /\ [][apiKey' = apiKey /\ baseUrl' = baseUrl /\ options' = options]_vars

\* After an earlier call's response has set the snapshot, the client
\* constructed with key rms_test_B has issued wallets.get with that key.
C9_Witness ==
  \E c \in Slots :
    /\ calls[c].pc = "fetch"
    /\ calls[c].inv.op = "wallets.get"
    /\ options.f.apiKey = JStr(<<"rms_test_B">>)
    /\ calls[c].sent[1].headers.Authorization = <<"Bearer", " ", "rms_test_B">>
    /\ rateLimit # JNull

(***************************************************************************)
(* C10                                                                     *)
(***************************************************************************)
\* C10: a call that has obtained a non-2xx response is awaiting
\* handleErrorResponse, which can then settle, or has ended, and then it has
\* ended by throwing one RamarisError; it never awaits response.json() of
\* request() and never returns a value.
C10_NonOkNeverReturns ==
  \A c \in Slots :
    (calls[c].resp # <<>> /\ NonOk(Resp(c))) =>
      /\ calls[c].pc \in {"handleError", "done"}
      /\ calls[c].pc = "handleError" => (calls[c].out = <<>> /\ ENABLED HandleError(c))
      /\ calls[c].pc = "done" =>
           /\ Len(calls[c].out) = 1
           /\ Outcome(c).tag = "throw"
           /\ InstanceOf(Outcome(c).error, "RamarisError")

\* health on a 304 whose JSON body is {data: Item} has ended by throwing a
\* RamarisError with status 304; the body was not returned.
C10_Witness ==
  \E c \in Slots :
    /\ Answered(c)
    /\ calls[c].inv.op = "health"
    /\ Resp(c).status = 304
    /\ Outcome(c).tag = "throw"
    /\ Outcome(c).error.name = "RamarisError"
    /\ Outcome(c).error.status = 304
    /\ Outcome(c).error.code = JStr(<<"FORBIDDEN">>)

(***************************************************************************)
(* C11                                                                     *)
(***************************************************************************)
\* C11: every invocation issues one request and never a second one; it is
\* settled only once its fetch has resolved (with a response) or rejected
\* (with a failure), never both; and a call that has ended, by a value or
\* by any error, takes no further step of its own: until the caller takes
\* its result nothing of it changes, and no step issues a request other than
\* the invocation of a public method on a free slot.
C11_OneRequestPerCallNoRetry ==
  /\ [](\A c \in Slots :
          /\ Len(calls[c].sent) <= 1
          /\ calls[c].pc # "idle" => Len(calls[c].sent) = 1
          /\ calls[c].pc = "fetch" =>
               (calls[c].resp = <<>> /\ calls[c].fail = <<>> /\ calls[c].out = <<>>)
          /\ calls[c].pc \in {"handleError", "json"} =>
               (calls[c].resp # <<>> /\ calls[c].out = <<>>)
          /\ Done(c) =>
               /\ Len(calls[c].out) = 1
               /\ (calls[c].resp # <<>>) # (calls[c].fail # <<>>))
  /\ [][\A c \in Slots :
          /\ Done(c) => (calls'[c] = calls[c] \/ calls'[c] = IdleCall)
          /\ calls'[c].sent # calls[c].sent =>
               (calls[c].pc = "idle" \/ calls'[c].pc = "idle")]_vars

\* Two calls have ended, the first by a RateLimitError and the second by a
\* NETWORK_ERROR, each having issued one request.
C11_Witness ==
  /\ Done(1) /\ Done(2)
  /\ Outcome(1).tag = "throw" /\ Outcome(1).error.name = "RateLimitError"
  /\ Outcome(2).tag = "throw" /\ Outcome(2).error.code = JStr(<<"NETWORK_ERROR">>)
  /\ Len(calls[1].sent) = 1 /\ Len(calls[2].sent) = 1

(***************************************************************************)
(* C12                                                                     *)
(***************************************************************************)
\* Several calls were made and every one of them has obtained its response
\* or its failure and has ended
AllCompleted ==
  /\ Cardinality({c \in Slots : calls[c].pc # "idle"}) >= 2
  /\ \A c \in Slots : calls[c].pc \in {"idle", "done"}

\* The response carries the three rate-limit headers
CarriesAllThree(response) == RateLimitHeaderNames \subseteq DOMAIN response.headers

\* The response carries the three rate-limit headers, none with an empty value
CarriesAllThreeNonEmpty(response) ==
  /\ CarriesAllThree(response)
  /\ \A n \in RateLimitHeaderNames : response.headers[n] # <<>>

\* The positions in arrived of the responses carrying all three headers
Carrying == {i \in DOMAIN arrived : CarriesAllThree(Resp(arrived[i]))}

CarryingNonEmpty == {i \in DOMAIN arrived : CarriesAllThreeNonEmpty(Resp(arrived[i]))}

\* The greatest element of a non-empty set of positions
Latest(S) == CHOOSE i \in S : \A j \in S : j <= i

\* C12 as stated: once all calls made concurrently have completed, the
\* snapshot is the parsed triple of the response received last among those
\* carrying all three headers.
C12_AsStated ==
  (AllCompleted /\ Carrying # {}) =>
    rateLimit = ParsedTriple(Resp(arrived[Latest(Carrying)]).headers)

\* C12, amended: among calls made concurrently, the snapshot is at any time,
\* and so once all have completed, the parsed triple of the response
\* received last among those carrying all three headers with a non-empty
\* value, whichever call was issued last; and every change of the snapshot
\* sets it to the whole triple of the one response received in that step,
\* never to fields of two responses.
C12_LastReceivedWins ==
  /\ [](CarryingNonEmpty # {} =>
          rateLimit = ParsedTriple(Resp(arrived[Latest(CarryingNonEmpty)]).headers))
  /\ [][rateLimit' # rateLimit =>
          \E c \in Slots :
            /\ Receives(c)
            /\ CarriesAllThreeNonEmpty(calls'[c].resp[1])
            /\ rateLimit' = ParsedTriple(calls'[c].resp[1].headers)]_vars

\* Two calls have completed; the response of the call issued first (60, 0,
\* 1700) was received after that of the call issued last (100, 99, 1800),
\* and the snapshot is that of the call issued first.
C12_Witness ==
  /\ AllCompleted
  /\ arrived = <<2, 1>>
  /\ CarriesAllThreeNonEmpty(Resp(1))
  /\ CarriesAllThreeNonEmpty(Resp(2))
  /\ ParsedTriple(Resp(1).headers) = [limit |-> Num(60), remaining |-> Num(0), reset |-> Num(1700)]
  /\ ParsedTriple(Resp(2).headers) = [limit |-> Num(100), remaining |-> Num(99), reset |-> Num(1800)]
  /\ rateLimit = [limit |-> Num(60), remaining |-> Num(0), reset |-> Num(1700)]

(***************************************************************************)
(* C13                                                                     *)
(***************************************************************************)
\* What an invocation ends with when it is the only call of the client and
\* its fetch rejects with fail[1] or resolves to resp[1]
AloneOutcome(inv, resp, fail) ==
  IF fail # <<>> THEN Throw(NetworkError(fail[1]))
  ELSE IF NonOk(resp[1]) THEN handleErrorResponse(resp[1])
  ELSE ReadBody(resp[1], Dispatch(inv).unwrap)

\* C13: with calls in flight concurrently, what a call ends with is what the
\* same invocation ends with alone on the same response or failure,
\* whatever the other calls are and received, in whatever order, and
\* whatever the snapshot is; so two calls with the same invocation and the
\* same response or failure end alike.
C13_OutcomeOwnCallOnly ==
  \A c \in Slots : Done(c) =>
    /\ Outcome(c) = AloneOutcome(calls[c].inv, calls[c].resp, calls[c].fail)
    /\ \A d \in Slots :
         ( /\ Done(d)
           /\ calls[d].inv = calls[c].inv
           /\ calls[d].resp = calls[c].resp
           /\ calls[d].fail = calls[c].fail ) => Outcome(d) = Outcome(c)

\* Two me.profile calls overlapped and their responses were received in the
\* reverse order of issue: the first, on a 200 with {data: Item}, returned
\* Item, and the second, on a 429, threw a RateLimitError.
C13_Witness ==
  /\ Done(1) /\ Done(2)
  /\ arrived = <<2, 1>>
  /\ calls[1].inv.op = "me.profile" /\ calls[2].inv.op = "me.profile"
  /\ Resp(1).status = 200 /\ Resp(2).status = 429
  /\ Outcome(1) = Return(Item)
  /\ Outcome(2).tag = "throw" /\ Outcome(2).error.name = "RateLimitError"

(***************************************************************************)
(* C14                                                                     *)
(***************************************************************************)
\* The call of slot c is issued, or ends without a response, in this step
IssuedOrFailed(c) ==
  \/ calls[c].pc = "idle" /\ calls'[c].pc = "fetch"
  \/ calls[c].pc = "fetch" /\ calls'[c].fail # <<>>

\* C14: the snapshot starts null; no step takes it from a value back to
\* null; the only steps that change it are those in which a response is
\* received, so the steps of a call that ends in a transport failure (its
\* issue and the rejection of its fetch) leave it exactly as it was.
C14_StartsNullNeverCleared ==
  /\ rateLimit = JNull
  /\ [][rateLimit # JNull => rateLimit' # JNull]_vars
  /\ [][\A c \in Slots : IssuedOrFailed(c) => rateLimit' = rateLimit]_vars
  /\ [][rateLimit' # rateLimit => \E c \in Slots : Receives(c)]_vars

\* After an earlier call set the snapshot, a call has ended in a transport
\* failure and the snapshot still holds a value.
C14_Witness ==
  \E c \in Slots :
    /\ Done(c)
    /\ calls[c].fail # <<>>
    /\ calls[c].resp = <<>>
    /\ Outcome(c).error.code = JStr(<<"NETWORK_ERROR">>)
    /\ rateLimit # JNull

(***************************************************************************)
(* C15                                                                     *)
(***************************************************************************)
\* C15: every error a public method throws is a RamarisError (possibly a
\* RateLimitError) carrying code and status, whatever the request ended
\* with.  Violated: on a 2xx response whose body is not JSON the
\* SyntaxError of response.json() escapes, and on a 2xx response whose body
\* is null a single-item method throws a TypeError.
C15_EveryErrorTyped ==
  \A c \in Slots :
    (Done(c) /\ Outcome(c).tag = "throw") =>
      /\ InstanceOf(Outcome(c).error, "RamarisError")
      /\ {"code", "status"} \subseteq DOMAIN Outcome(c).error

====
